---- MODULE Spec2Model ----
(***************************************************************************)
(* A model of the gluon objects that the notebook "Plumbing: A look under  *)
(* the hood of mxnet.gluon" builds and drives: the Sequential net1 (Dense  *)
(* layers without in_units), the Block subclass MLP, and the Sequential    *)
(* net2 whose layers are given in_units.  The state is the three network   *)
(* objects; the operations are add, initialize and the forward call.  The  *)
(* notebook never calls the Sequential net2: it is built, initialised and  *)
(* printed.                                                                *)
(*                                                                         *)
(* A tensor is a record [shape, val]: its shape (batch, features) and a    *)
(* term that records how the value was computed.  A parameter's data, once *)
(* it exists, is the pair <<initializer, shape>>: two parameters hold      *)
(* identical values exactly when the same initializer filled the same      *)
(* shape.  A parameter also counts the calls of an initializer on it.      *)
(***************************************************************************)
EXTENDS Integers, Sequences, FiniteSets, TLC

VARIABLES net1, mlp, net2

vars == <<net1, mlp, net2>>

\* The longest Sequential the model builds with net1.add.
MaxChildren == 3

----------------------------------------------------------------------------
(* Data *)

\* mx.init.Xavier(magnitude=2.24) of net1/net2, and the default initializer
\* that net2.initialize(ctx=ctx) of the MLP falls back to.
Initializers == {"Xavier", "Uniform"}

\* One MNIST example (28 x 28 = 784 features), a batch of batch_size = 64 of
\* them, and a batch with the 42 features the notebook contrasts 784 with.
Inputs ==
  { [shape |-> <<1, 784>>,  val |-> <<"data", <<1, 784>>>>],
    [shape |-> <<64, 784>>, val |-> <<"data", <<64, 784>>>>],
    [shape |-> <<64, 42>>,  val |-> <<"data", <<64, 42>>>>] }

NoTensor == [shape |-> <<>>, val |-> <<>>]

----------------------------------------------------------------------------
(* Parameters *)

\* A parameter as a layer's constructor declares it: a shape, no data, no
\* initializer noted or called yet.
Parameter(shape) ==
  [shape |-> shape, state |-> "uninit", init |-> "none", data |-> <<>>,
   ninit |-> 0]

\* A zero marks a dimension that is not yet known.
ShapeKnown(shape) == \A i \in 1..Len(shape) : shape[i] > 0

\* Mutant: the data comes from the default initializer, not the recorded one.
FinishDeferredInit_DefaultInit(p, shape) ==
  [p EXCEPT !.shape = shape, !.state = "ready",
            !.data = <<"Uniform", shape>>, !.ninit = @ + 1]

\* The parameter gets its data: the recorded initializer is called on an
\* array of the (now complete) shape.
FinishDeferredInit(p, shape) ==
  [p EXCEPT !.shape = shape, !.state = "ready", !.data = <<p.init, shape>>,
            !.ninit = @ + 1]

\* Mutant: the parameter is initialised at once, whatever its shape.
ParamInitialize_Eager(p, init) ==
  FinishDeferredInit([p EXCEPT !.init = init], p.shape)

\* Parameter.initialize: a parameter whose shape is known is initialised
\* now (as those of net2 are, before any data is seen); for one whose shape
\* is not yet known only the initializer is noted.
ParamInitialize(p, init) ==
  IF ShapeKnown(p.shape)
    THEN FinishDeferredInit([p EXCEPT !.init = init], p.shape)
    ELSE [p EXCEPT !.state = "deferred", !.init = init]

----------------------------------------------------------------------------
(* Layers *)

\* Mutant: a weight whose in_units is not given is declared square.
Dense_Square(units, activation, in_units) ==
  [units |-> units, act |-> activation,
   weight |-> Parameter(<<units, IF in_units = 0 THEN units ELSE in_units>>),
   bias |-> Parameter(<<units>>)]

\* gluon.nn.Dense(units, activation=..., in_units=...): a weight matrix of
\* shape (units, in_units) and a bias vector of shape (units,); in_units is 0
\* when it is not given.
Dense(units, activation, in_units) ==
  [units |-> units, act |-> activation,
   weight |-> Parameter(<<units, in_units>>),
   bias |-> Parameter(<<units>>)]

\* nd.relu
relu(x) == [shape |-> x.shape, val |-> <<"relu", x.val>>]

\* Whether a layer accepts x: its input size is unknown or is x's.
Accepts(layer, x) ==
  layer.weight.shape[2] = 0 \/ layer.weight.shape[2] = x.shape[2]

\* Mutant: the weight's input size is taken from the batch axis of x.
DenseCall_BatchAxis(layer, x) ==
  LET w == IF layer.weight.state = "deferred"
             THEN FinishDeferredInit(layer.weight,
                                     <<layer.units, x.shape[1]>>)
             ELSE layer.weight
      y == [shape |-> <<x.shape[1], layer.units>>,
            val   |-> <<"dense", w.data, layer.bias.data, x.val>>]
  IN  [layer |-> [layer EXCEPT !.weight = w],
       out   |-> IF layer.act = "relu" THEN relu(y) ELSE y]

\* Mutant: every call runs the initializer on the weight again.
DenseCall_InitEachCall(layer, x) ==
  LET w == FinishDeferredInit(layer.weight, <<layer.units, x.shape[2]>>)
      y == [shape |-> <<x.shape[1], layer.units>>,
            val   |-> <<"dense", w.data, layer.bias.data, x.val>>]
  IN  [layer |-> [layer EXCEPT !.weight = w],
       out   |-> IF layer.act = "relu" THEN relu(y) ELSE y]

\* A Dense layer called on x: a parameter still deferred gets its shape from
\* x and its data from the recorded initializer; the output is
\* activation(weight * x + bias), one row of `units` values per example.
\* The result is the layer after the call and the output.
DenseCall(layer, x) ==
  LET w == IF layer.weight.state = "deferred"
             THEN FinishDeferredInit(layer.weight,
                                     <<layer.units, x.shape[2]>>)
             ELSE layer.weight
      b == IF layer.bias.state = "deferred"
             THEN FinishDeferredInit(layer.bias, <<layer.units>>)
             ELSE layer.bias
      y == [shape |-> <<x.shape[1], layer.units>>,
            val   |-> <<"dense", w.data, b.data, x.val>>]
  IN  [layer |-> [layer EXCEPT !.weight = w, !.bias = b],
       out   |-> IF layer.act = "relu" THEN relu(y) ELSE y]

----------------------------------------------------------------------------
(* Blocks *)

\* A Block as constructed: its children.  The other fields record the calls
\* made on it: the number of add calls (adds), whether initialize was called
\* and with which initializer (init), whether the block was called, the
\* input of its first call (x0), and what its last call took (x), invoked
\* (trace) and returned (out).
NewBlock(children) ==
  [children |-> children, adds |-> 0, initialized |-> FALSE,
   init |-> "none", called |-> FALSE, x0 |-> NoTensor, x |-> NoTensor,
   out |-> NoTensor, trace |-> <<>>]

\* Mutant: the new child is registered in front of the earlier ones.
add_Front(net, block) ==
  [net EXCEPT !.children = <<block>> \o @, !.adds = @ + 1]

\* net.add(block): the Sequential registers a new child.
add(net, block) ==
  [net EXCEPT !.children = Append(@, block), !.adds = @ + 1]

\* Mutant: only the weights are initialised.
initialize_WeightsOnly(net, init) ==
  [net EXCEPT
     !.initialized = TRUE,
     !.init = init,
     !.children =
        [i \in 1..Len(@) |->
           [@[i] EXCEPT !.weight = ParamInitialize(@, init)]]]

\* net.collect_params().initialize(init, ctx=ctx): every parameter of every
\* child is initialised with init.
initialize(net, init) ==
  [net EXCEPT
     !.initialized = TRUE,
     !.init = init,
     !.children =
        [i \in 1..Len(@) |->
           [@[i] EXCEPT !.weight = ParamInitialize(@, init),
                        !.bias   = ParamInitialize(@, init)]]]

\* net.collect_params(): the parameters of the children, in order.
collect_params(net) ==
  [i \in 1..Len(net.children) |->
     [weight |-> net.children[i].weight, bias |-> net.children[i].bias]]

\* Mutant: every child is called on the input of the network, and the last
\* child's output is returned.
RECURSIVE SequentialLoop_SameInput(_, _, _, _)
SequentialLoop_SameInput(children, i, x, trace) ==
  IF i > Len(children)
    THEN [children |-> children, out |-> x, trace |-> trace]
    ELSE LET r == DenseCall(children[i], x)
             rest == SequentialLoop_SameInput(
                        [children EXCEPT ![i] = r.layer], i + 1, x,
                        Append(trace, i))
         IN  IF i = Len(children) THEN [rest EXCEPT !.out = r.out] ELSE rest

\* Sequential.forward:  for block in self._children: x = block(x);  return x
\* from child i on, with the children called so far in trace.
RECURSIVE SequentialLoop(_, _, _, _)
SequentialLoop(children, i, x, trace) ==
  IF i > Len(children)
    THEN [children |-> children, out |-> x, trace |-> trace]
    ELSE LET r == DenseCall(children[i], x)
         IN  SequentialLoop([children EXCEPT ![i] = r.layer], i + 1, r.out,
                            Append(trace, i))

SequentialForward(net, x) ==
  LET r == SequentialLoop(net.children, 1, x, <<>>)
  IN  [net EXCEPT !.children = r.children, !.called = TRUE,
                  !.x0 = IF net.called THEN @ ELSE x, !.x = x,
                  !.out = r.out, !.trace = r.trace]

\* Mutant: the second nd.relu is left out.
MLPForward_NoRelu(net, x) ==
  LET r0 == DenseCall(net.children[1], x)
      x1 == relu(r0.out)
      r1 == DenseCall(net.children[2], x1)
      r2 == DenseCall(net.children[3], r1.out)
  IN  [net EXCEPT !.children = <<r0.layer, r1.layer, r2.layer>>,
                  !.called = TRUE, !.x0 = IF net.called THEN @ ELSE x,
                  !.x = x, !.out = r2.out, !.trace = <<1, 2, 3>>]

\* MLP.forward: x = nd.relu(self.dense0(x)); x = nd.relu(self.dense1(x));
\* return self.dense2(x).  children[1..3] are dense0, dense1, dense2.
MLPForward(net, x) ==
  LET r0 == DenseCall(net.children[1], x)
      x1 == relu(r0.out)
      r1 == DenseCall(net.children[2], x1)
      x2 == relu(r1.out)
      r2 == DenseCall(net.children[3], x2)
  IN  [net EXCEPT !.children = <<r0.layer, r1.layer, r2.layer>>,
                  !.called = TRUE, !.x0 = IF net.called THEN @ ELSE x,
                  !.x = x, !.out = r2.out, !.trace = <<1, 2, 3>>]

\* Whether net(x) runs: initialize has been called, and the first layer
\* takes inputs of x's size (otherwise the call raises and changes nothing).
CanCall(net, x) ==
  /\ net.initialized
  /\ Len(net.children) > 0 => Accepts(net.children[1], x)

----------------------------------------------------------------------------
(* The layers the notebook constructs *)

\* net1.add(gluon.nn.Dense(128, activation="relu")) ... Dense(10)
Net1Layers ==
  <<Dense(128, "relu", 0), Dense(64, "relu", 0), Dense(10, "none", 0)>>

\* self.dense0 = nn.Dense(128) ... self.dense2 = nn.Dense(10)
MLPLayers ==
  <<Dense(128, "none", 0), Dense(64, "none", 0), Dense(10, "none", 0)>>

\* net2.add(gluon.nn.Dense(128, in_units=784, activation="relu")) ...
Net2Layers ==
  <<Dense(128, "relu", 784), Dense(64, "relu", 128), Dense(10, "none", 64)>>

----------------------------------------------------------------------------
(* The state machine *)

\* net1 = gluon.nn.Sequential(); net2 = MLP(); net2 = gluon.nn.Sequential()
Init ==
  /\ net1 = NewBlock(<<>>)
  /\ mlp  = NewBlock(MLPLayers)
  /\ net2 = NewBlock(<<>>)

\* net1.add(...) with one of the layers the notebook adds to net1, while the
\* network is being built.
AddNet1 ==
  /\ ~net1.initialized
  /\ Len(net1.children) < MaxChildren
  /\ \E k \in 1..Len(Net1Layers) : net1' = add(net1, Net1Layers[k])
  /\ UNCHANGED <<mlp, net2>>

\* net2.add(...): the next layer of the notebook's net2, in its order.
AddNet2 ==
  /\ ~net2.initialized
  /\ Len(net2.children) < Len(Net2Layers)
  /\ net2' = add(net2, Net2Layers[Len(net2.children) + 1])
  /\ UNCHANGED <<net1, mlp>>

InitializeNet1 ==
  /\ ~net1.initialized
  /\ \E init \in Initializers : net1' = initialize(net1, init)
  /\ UNCHANGED <<mlp, net2>>

InitializeMLP ==
  /\ ~mlp.initialized
  /\ \E init \in Initializers : mlp' = initialize(mlp, init)
  /\ UNCHANGED <<net1, net2>>

InitializeNet2 ==
  /\ ~net2.initialized
  /\ \E init \in Initializers : net2' = initialize(net2, init)
  /\ UNCHANGED <<net1, mlp>>

\* net1(data)
CallNet1 ==
  /\ \E x \in Inputs : CanCall(net1, x) /\ net1' = SequentialForward(net1, x)
  /\ UNCHANGED <<mlp, net2>>

\* net2(data), net2 the MLP
CallMLP ==
  /\ \E x \in Inputs : CanCall(mlp, x) /\ mlp' = MLPForward(mlp, x)
  /\ UNCHANGED <<net1, net2>>

Next ==
  \/ AddNet1
  \/ AddNet2
  \/ InitializeNet1
  \/ InitializeMLP
  \/ InitializeNet2
  \/ CallNet1
  \/ CallMLP

Spec == Init /\ [][Next]_vars

----------------------------------------------------------------------------
(* What the properties below speak about *)

\* The layers of a network as constructed: (units, activation) of each child.
Specs(net) ==
  [i \in 1..Len(net.children) |->
     <<net.children[i].units, net.children[i].act>>]

\* net1 is the notebook's net1: Dense(128, relu), Dense(64, relu), Dense(10).
BuiltAsNet1 == Specs(net1) = <<<<128, "relu">>, <<64, "relu">>, <<10, "none">>>>

WeightShapes(net) ==
  [i \in 1..Len(net.children) |-> collect_params(net)[i].weight.shape]

Materialised(p) == p.state = "ready" /\ p.data # <<>> /\ ShapeKnown(p.shape)

AllMaterialised(net) ==
  \A i \in 1..Len(net.children) :
     /\ Materialised(net.children[i].weight)
     /\ Materialised(net.children[i].bias)

\* c_n(...c_2(c_1(x))...) for the first n children, innermost first.
RECURSIVE Chain(_, _, _)
Chain(children, n, x) ==
  IF n = 0 THEN x ELSE DenseCall(children[n], Chain(children, n - 1, x)).out

----------------------------------------------------------------------------
(* C1 *)

----------------------------------------------------------------------------
(* C2 *)

\* C2: whenever net1 (Dense(128, relu), Dense(64, relu), Dense(10), chained by
\* Sequential) and the MLP (manual forward) were last called on the same
\* input and their corresponding weights and biases hold identical values,
\* they returned the same output.
C2_SameNetwork ==
  ( /\ BuiltAsNet1
    /\ net1.called
    /\ mlp.called
    /\ net1.x = mlp.x
    /\ \A i \in 1..3 :
          /\ net1.children[i].weight.data = mlp.children[i].weight.data
          /\ net1.children[i].bias.data = mlp.children[i].bias.data )
  => net1.out = mlp.out

C2_Witness ==
  /\ BuiltAsNet1
  /\ net1.called
  /\ mlp.called
  /\ net1.x = mlp.x
  /\ net1.init = mlp.init
  /\ net1.out = mlp.out
  /\ net1.out.shape = <<64, 10>>

----------------------------------------------------------------------------
(* C3 *)

\* C3: once initialize has been called on net2 (every Dense given in_units),
\* and with no forward call having occurred (net2 is never called), every
\* weight and bias of net2 is materialised, with the shape (units, in_units)
\* resp. (units,) it was declared with.
C3_InitializedBeforeData ==
  (net2.initialized /\ ~net2.called) =>
     /\ AllMaterialised(net2)
     /\ \A i \in 1..Len(net2.children) :
           /\ net2.children[i].weight.shape = Net2Layers[i].weight.shape
           /\ net2.children[i].bias.shape = Net2Layers[i].bias.shape

C3_Witness ==
  /\ Len(net2.children) = 3
  /\ net2.initialized
  /\ ~net2.called
  /\ WeightShapes(net2) = <<<<128, 784>>, <<64, 128>>, <<10, 64>>>>

----------------------------------------------------------------------------
(* C4 *)

\* C4: a forward call on a Sequential with children c1..cn, added in that
\* order, calls each child exactly once, in that order, and returns
\* cn(...c2(c1(x))...).
C4_ForwardChains ==
  net1.called =>
     /\ net1.trace = [i \in 1..Len(net1.children) |-> i]
     /\ net1.out = Chain(net1.children, Len(net1.children), net1.x)

C4_Witness ==
  /\ net1.called
  /\ Specs(net1) = <<<<10, "none">>, <<128, "relu">>, <<64, "relu">>>>
  /\ net1.trace = <<1, 2, 3>>
  /\ net1.out.shape = <<64, 64>>

----------------------------------------------------------------------------
(* C5 *)

----------------------------------------------------------------------------
(* C7 *)

\* C7: before net1 (built without in_units) has been given any input,
\* collect_params() reports the weight shapes (128,0), (64,0), (10,0),
\* whether or not initialize has been called.
C7_ZeroMarksUnknown ==
  (BuiltAsNet1 /\ ~net1.called) =>
     WeightShapes(net1) = <<<<128, 0>>, <<64, 0>>, <<10, 0>>>>

C7_Witness ==
  /\ BuiltAsNet1
  /\ net1.init = "Xavier"
  /\ ~net1.called
  /\ WeightShapes(net1) = <<<<128, 0>>, <<64, 0>>, <<10, 0>>>>

----------------------------------------------------------------------------
(* C8 *)

\* C8: after n add calls on a fresh Sequential its children list has exactly
\* n entries, in the order of the add calls; no step removes or reorders an
\* earlier child.
C8_AddRegistersOneChild ==
  /\ [](Len(net1.children) = net1.adds /\ Len(net2.children) = net2.adds)
  /\ [][ /\ Len(net1'.children) >= Len(net1.children)
         /\ SubSeq(Specs(net1'), 1, Len(net1.children)) = Specs(net1)
         /\ net1'.adds = net1.adds + 1 =>
               Len(net1'.children) = Len(net1.children) + 1
         /\ Len(net2'.children) >= Len(net2.children)
         /\ SubSeq(Specs(net2'), 1, Len(net2.children)) = Specs(net2) ]_vars

C8_Witness ==
  /\ net1.adds = 3
  /\ Specs(net1) = <<<<64, "relu">>, <<10, "none">>, <<128, "relu">>>>

----------------------------------------------------------------------------
(* C9 *)

\* C9: after the first forward call of net1 on input with 784 features per
\* example, its weight shapes are (128,784), (64,128), (10,64), the shapes
\* net2 is declared with, and the output has 10 units per example.
C9_ShapesInferredFromData ==
  (BuiltAsNet1 /\ net1.called /\ net1.x0.shape[2] = 784) =>
     /\ WeightShapes(net1) = <<<<128, 784>>, <<64, 128>>, <<10, 64>>>>
     /\ Len(net2.children) = 3 => WeightShapes(net1) = WeightShapes(net2)
     /\ net1.out.shape = <<net1.x.shape[1], 10>>

C9_Witness ==
  /\ BuiltAsNet1
  /\ net1.called
  /\ net1.x0.shape = <<64, 784>>
  /\ net1.x = net1.x0
  /\ Len(net2.children) = 3
  /\ net1.children[1].weight.shape = <<128, 784>>

----------------------------------------------------------------------------
(* C10 *)

\* C10: the first forward call after initialize instantiates the parameters,
\* and every later forward call on the same network leaves the shapes and
\* values of all its parameters unchanged, and calls no initializer again.
C10_MaterialisedOnce ==
  /\ [](/\ net1.called => AllMaterialised(net1)
        /\ mlp.called => AllMaterialised(mlp))
  /\ [][ /\ net1.called => collect_params(net1') = collect_params(net1)
         /\ mlp.called => collect_params(mlp') = collect_params(mlp) ]_vars

C10_Witness ==
  /\ BuiltAsNet1
  /\ net1.called
  /\ net1.x0.shape = <<64, 784>>
  /\ net1.x.shape = <<1, 784>>
  /\ AllMaterialised(net1)

====
